---- MODULE Spec2Model ----
(***************************************************************************)
(* A model of engine262's Array.prototype methods                          *)
(* (src/intrinsics/ArrayPrototype.mjs) and of the command line's module    *)
(* loading (bin/engine262.js).                                             *)
(*                                                                         *)
(* SpecArray : the mutating methods applied to one receiver.               *)
(* SpecFlat  : flat on nested arrays.                                      *)
(* SpecIter  : map, filter and flatMap with their operations logged and    *)
(*             any one of them returning an abrupt completion.             *)
(* SpecMutate: map and filter with a callback that changes the receiver.   *)
(* SpecCli   : the command line running an input file as a script or as a  *)
(*             module, with the resolver hook of createRealm.              *)
(***************************************************************************)
EXTENDS Integers, Sequences, FiniteSets, TLC

VARIABLES
  O,      \* the receiver: [kind, length, elems, locked]
  pre,    \* the receiver as it was when the last call started
  call,   \* the last call: [name, items, args, species]
  ret,    \* the completion the last call returned
  A,      \* the array the last call created (splice, concat), or NoObject
  clean,  \* TRUE while every call so far has returned normally
  inp,    \* a call of flat, map, filter or flatMap: receiver and arguments
  log,    \* the operations that call has performed, in order
  out,    \* the array it returned
  res,    \* the completion it returned
  done,   \* TRUE once it has returned
  files,        \* the command line's input: mode, and per file exists, syntaxOk, imports
  pc,           \* where main is
  stack,        \* the calls of createSourceTextModule and Link in progress
  retv,         \* the value resolveImportedModule is returning to its caller
  modules,      \* the module records created; a module's identity is its position
  moduleEntry,  \* realm.moduleEntry, 0 while unset
  moduleCache,  \* moduleCache: resolved path -> module or abrupt completion
  result,       \* main's variable result
  hist,         \* what has been called and returned so far
  proc          \* the process: exit status and whether stderr was written

arrVars == <<O, pre, call, ret, A, clean>>
iterVars == <<inp, log, out, res, done>>
cliVars == <<files, pc, stack, retv, modules, moduleEntry, moduleCache, result, hist, proc>>
vars == <<arrVars, iterVars, cliVars>>

-----------------------------------------------------------------------------
(* Bounds and program constants.                                            *)

\* 2^53 - 1 in the source.  TLC's integers are 32 bits wide, so the limit is
\* represented by a small stand-in; the code only adds lengths and counts and
\* compares or clamps the sum against it.
MAX_SAFE_INTEGER == 4

\* Longest array-exotic receiver in the initial states and after any call.
MaxArrayLen == 3

\* Most items passed to push, unshift, splice or concat.
MaxItems == 2

Vals == {"a", "b"}
Hole == "hole"                 \* index without own property
Undefined == "undefined"

Idx == 0 .. (MAX_SAFE_INTEGER - 1)

Min(a, b) == IF a < b THEN a ELSE b
Max(a, b) == IF a > b THEN a ELSE b

-----------------------------------------------------------------------------
(* Completions.                                                             *)

NormalCompletion(v) == [type |-> "normal", val |-> v, num |-> 0]
NumberCompletion(n) == [type |-> "normal", val |-> "number", num |-> n]
Throw(kind) == [type |-> "throw", val |-> kind, num |-> 0]
IsAbrupt(c) == c.type # "normal"

-----------------------------------------------------------------------------
(* Objects: the property store and the internal methods the array methods  *)
(* go through.                                                              *)

NoObject == [kind |-> "none", length |-> 0, elems |-> [i \in Idx |-> Hole], locked |-> {}]

ArrayCreate(n) ==
  [kind |-> "array", length |-> n, elems |-> [i \in Idx |-> Hole], locked |-> {}]

\* ToLength: clamp to [0, 2^53 - 1].
ToLength(n) == Max(0, Min(n, MAX_SAFE_INTEGER))

HasProperty(obj, k) == obj.elems[k] # Hole

Get(obj, k) == IF HasProperty(obj, k) THEN obj.elems[k] ELSE Undefined

\* Set(O, index, v, true): a non-writable property rejects the write and the
\* rejection is thrown; an array exotic raises its length to index + 1.
SetIndex(obj, k, v) ==
  IF k \in obj.locked
    THEN [O |-> obj, c |-> Throw("TypeError")]
    ELSE [O |-> [obj EXCEPT !.elems[k] = v,
                            !.length = IF obj.kind = "array" /\ k >= @ THEN k + 1 ELSE @],
          c |-> NormalCompletion(Undefined)]

\* The largest non-configurable index at or above n, or -1.
LockedFrom(obj, n) ==
  LET S == {k \in obj.locked : k >= n}
  IN IF S = {} THEN -1 ELSE CHOOSE k \in S : \A j \in S : j <= k

\* Set(O, "length", n, true): an array exotic deletes its indices >= n from
\* the top and stops, with length left above it, at one it cannot delete.
SetLength(obj, n) ==
  IF obj.kind # "array"
    THEN [O |-> [obj EXCEPT !.length = n], c |-> NormalCompletion(Undefined)]
    ELSE LET stop == LockedFrom(obj, n)
             newLen == IF stop >= 0 THEN stop + 1 ELSE n
         IN [O |-> [obj EXCEPT !.length = newLen,
                               !.elems = [i \in Idx |-> IF i >= newLen THEN Hole ELSE @[i]]],
             c |-> IF stop >= 0 THEN Throw("TypeError") ELSE NormalCompletion(Undefined)]

\* CreateDataPropertyOrThrow(A, index, v).
CreateDataPropertyOrThrow(obj, k, v) ==
  IF k \in obj.locked
    THEN [O |-> obj, c |-> Throw("TypeError")]
    ELSE [O |-> [obj EXCEPT !.elems[k] = v,
                            !.length = IF obj.kind = "array" /\ k >= @ THEN k + 1 ELSE @],
          c |-> NormalCompletion(Undefined)]

\* ArraySpeciesCreate(O, n): a new array of length n, or the abrupt completion
\* of the species lookup or of the constructor.
ArraySpeciesCreate(species, n) ==
  IF species = "throw"
    THEN [O |-> NoObject, c |-> Throw("SpeciesError")]
    ELSE [O |-> ArrayCreate(n), c |-> NormalCompletion(Undefined)]

\* DeletePropertyOrThrow(O, index).
DeletePropertyOrThrow(obj, k) ==
  IF k \in obj.locked
    THEN [O |-> obj, c |-> Throw("TypeError")]
    ELSE [O |-> [obj EXCEPT !.elems[k] = Hole], c |-> NormalCompletion(Undefined)]

-----------------------------------------------------------------------------
(* 22.1.3.18 Array.prototype.push                                           *)

RECURSIVE push_loop(_, _, _)
push_loop(obj, items, len) ==
  IF Len(items) = 0
    THEN [O |-> obj, c |-> NumberCompletion(len)]
    ELSE LET s == SetIndex(obj, len, Head(items))
         IN IF IsAbrupt(s.c) THEN s ELSE push_loop(s.O, Tail(items), len + 1)

\* push without the final Set of length.
push_noLength(obj, items) ==
  LET len == ToLength(obj.length)
      argCount == Len(items)
  IN IF len + argCount > MAX_SAFE_INTEGER
       THEN [O |-> obj, c |-> Throw("TypeError: ArrayPastSafeLength")]
       ELSE push_loop(obj, items, len)

ArrayProto_push(obj, items) ==
  LET len == ToLength(obj.length)
      argCount == Len(items)
  IN IF len + argCount > MAX_SAFE_INTEGER
       THEN [O |-> obj, c |-> Throw("TypeError: ArrayPastSafeLength")]
       ELSE LET w == push_loop(obj, items, len)
            IN IF IsAbrupt(w.c) THEN w
               ELSE LET s == SetLength(w.O, w.c.num)
                    IN IF IsAbrupt(s.c) THEN s ELSE [O |-> s.O, c |-> w.c]

-----------------------------------------------------------------------------
(* 22.1.3.17 Array.prototype.pop                                            *)

\* pop without DeletePropertyOrThrow.
pop_noDelete(obj) ==
  LET len == ToLength(obj.length)
  IN IF len = 0
       THEN LET s == SetLength(obj, 0)
            IN IF IsAbrupt(s.c) THEN s ELSE [O |-> s.O, c |-> NormalCompletion(Undefined)]
       ELSE LET s == SetLength(obj, len - 1)
            IN IF IsAbrupt(s.c) THEN s
               ELSE [O |-> s.O, c |-> NormalCompletion(Get(obj, len - 1))]

ArrayProto_pop(obj) ==
  LET len == ToLength(obj.length)
  IN IF len = 0
       THEN LET s == SetLength(obj, 0)
            IN IF IsAbrupt(s.c) THEN s ELSE [O |-> s.O, c |-> NormalCompletion(Undefined)]
       ELSE LET newLen == len - 1
                element == Get(obj, newLen)
                d == DeletePropertyOrThrow(obj, newLen)
            IN IF IsAbrupt(d.c) THEN d
               ELSE LET s == SetLength(d.O, newLen)
                    IN IF IsAbrupt(s.c) THEN s
                       ELSE [O |-> s.O, c |-> NormalCompletion(element)]

-----------------------------------------------------------------------------
(* The step shared by shift, unshift, splice and copyWithin: move the       *)
(* property at from to to, or delete to when from is absent.                *)

MoveProperty_keep(obj, from, to) ==
  IF HasProperty(obj, from)
    THEN SetIndex(obj, to, Get(obj, from))
    ELSE [O |-> obj, c |-> NormalCompletion(Undefined)]

MoveProperty(obj, from, to) ==
  IF HasProperty(obj, from)
    THEN SetIndex(obj, to, Get(obj, from))
    ELSE DeletePropertyOrThrow(obj, to)

-----------------------------------------------------------------------------
(* 22.1.3.22 Array.prototype.shift                                          *)

RECURSIVE shift_loop(_, _, _)
shift_loop(obj, k, len) ==
  IF ~(k < len)
    THEN [O |-> obj, c |-> NormalCompletion(Undefined)]
    ELSE LET m == MoveProperty(obj, k, k - 1)
         IN IF IsAbrupt(m.c) THEN m ELSE shift_loop(m.O, k + 1, len)

\* shift without the DeletePropertyOrThrow of the last index.
shift_noDelete(obj) ==
  LET len == ToLength(obj.length)
  IN IF len = 0
       THEN LET s == SetLength(obj, 0)
            IN IF IsAbrupt(s.c) THEN s ELSE [O |-> s.O, c |-> NormalCompletion(Undefined)]
       ELSE LET first == Get(obj, 0)
                w == shift_loop(obj, 1, len)
            IN IF IsAbrupt(w.c) THEN w
               ELSE LET s == SetLength(w.O, len - 1)
                    IN IF IsAbrupt(s.c) THEN s
                       ELSE [O |-> s.O, c |-> NormalCompletion(first)]

ArrayProto_shift(obj) ==
  LET len == ToLength(obj.length)
  IN IF len = 0
       THEN LET s == SetLength(obj, 0)
            IN IF IsAbrupt(s.c) THEN s ELSE [O |-> s.O, c |-> NormalCompletion(Undefined)]
       ELSE LET first == Get(obj, 0)
                w == shift_loop(obj, 1, len)
            IN IF IsAbrupt(w.c) THEN w
               ELSE LET d == DeletePropertyOrThrow(w.O, len - 1)
                    IN IF IsAbrupt(d.c) THEN d
                       ELSE LET s == SetLength(d.O, len - 1)
                            IN IF IsAbrupt(s.c) THEN s
                               ELSE [O |-> s.O, c |-> NormalCompletion(first)]

-----------------------------------------------------------------------------
(* 22.1.3.29 Array.prototype.unshift                                        *)

RECURSIVE unshift_move(_, _, _)
unshift_move(obj, k, argCount) ==
  IF ~(k > 0)
    THEN [O |-> obj, c |-> NormalCompletion(Undefined)]
    ELSE LET m == MoveProperty(obj, k - 1, k + argCount - 1)
         IN IF IsAbrupt(m.c) THEN m ELSE unshift_move(m.O, k - 1, argCount)

RECURSIVE store_items(_, _, _)
store_items(obj, items, j) ==
  IF Len(items) = 0
    THEN [O |-> obj, c |-> NormalCompletion(Undefined)]
    ELSE LET s == SetIndex(obj, j, Head(items))
         IN IF IsAbrupt(s.c) THEN s ELSE store_items(s.O, Tail(items), j + 1)

\* unshift with the length check made after the elements have moved.
unshift_lateCheck(obj, args) ==
  LET len == ToLength(obj.length)
      argCount == Len(args)
      w == unshift_move(obj, len, Min(argCount, MAX_SAFE_INTEGER - len))
  IN IF IsAbrupt(w.c) THEN w
     ELSE IF len + argCount > MAX_SAFE_INTEGER
            THEN [O |-> w.O, c |-> Throw("TypeError: ArrayPastSafeLength")]
            ELSE LET t == store_items(w.O, args, 0)
                 IN IF IsAbrupt(t.c) THEN t
                    ELSE LET s == SetLength(t.O, len + argCount)
                         IN IF IsAbrupt(s.c) THEN s
                            ELSE [O |-> s.O, c |-> NumberCompletion(len + argCount)]

ArrayProto_unshift(obj, args) ==
  LET len == ToLength(obj.length)
      argCount == Len(args)
      body == IF argCount > 0
                THEN IF len + argCount > MAX_SAFE_INTEGER
                       THEN [O |-> obj, c |-> Throw("TypeError: ArrayPastSafeLength")]
                       ELSE LET w == unshift_move(obj, len, argCount)
                            IN IF IsAbrupt(w.c) THEN w ELSE store_items(w.O, args, 0)
                ELSE [O |-> obj, c |-> NormalCompletion(Undefined)]
  IN IF IsAbrupt(body.c) THEN body
     ELSE LET s == SetLength(body.O, len + argCount)
          IN IF IsAbrupt(s.c) THEN s ELSE [O |-> s.O, c |-> NumberCompletion(len + argCount)]

-----------------------------------------------------------------------------
(* 22.1.3.6 Array.prototype.fill                                            *)

\* The clamp of a relative index into [0, len].
RelativeIndex(rel, len) == IF rel < 0 THEN Max(len + rel, 0) ELSE Min(rel, len)

\* ToInteger of the n-th numeric argument; undefined (absent) gives dflt.
Arg(args, n, dflt) == IF Len(args) >= n THEN args[n] ELSE dflt

RECURSIVE fill_loop(_, _, _, _)
fill_loop(obj, value, k, final) ==
  IF ~(k < final)
    THEN [O |-> obj, c |-> NormalCompletion(Undefined)]
    ELSE LET s == SetIndex(obj, k, value)
         IN IF IsAbrupt(s.c) THEN s ELSE fill_loop(s.O, value, k + 1, final)

ArrayProto_fill(obj, value, args) ==
  LET len == ToLength(obj.length)
      k == RelativeIndex(Arg(args, 1, 0), len)
      final == RelativeIndex(Arg(args, 2, len), len)
      w == fill_loop(obj, value, k, final)
  IN IF IsAbrupt(w.c) THEN w ELSE [O |-> w.O, c |-> NormalCompletion("O")]

-----------------------------------------------------------------------------
(* 22.1.3.3 Array.prototype.copyWithin                                      *)

RECURSIVE copyWithin_loop(_, _, _, _, _)
copyWithin_loop(obj, from, to, count, direction) ==
  IF ~(count > 0)
    THEN [O |-> obj, c |-> NormalCompletion(Undefined)]
    ELSE LET m == MoveProperty(obj, from, to)
         IN IF IsAbrupt(m.c) THEN m
            ELSE copyWithin_loop(m.O, from + direction, to + direction, count - 1, direction)

copyWithin_forward(from, to, count) == 1

\* Lines 110-117: the direction of the copy.
copyWithin_direction(from, to, count) ==
  IF from < to /\ to < from + count THEN -1 ELSE 1

ArrayProto_copyWithin(obj, args) ==
  LET len == ToLength(obj.length)
      to == RelativeIndex(Arg(args, 1, 0), len)
      from == RelativeIndex(Arg(args, 2, 0), len)
      final == RelativeIndex(Arg(args, 3, len), len)
      count == Min(final - from, len - to)
      w == IF copyWithin_direction(from, to, count) = -1
             THEN copyWithin_loop(obj, from + count - 1, to + count - 1, count, -1)
             ELSE copyWithin_loop(obj, from, to, count, 1)
  IN IF IsAbrupt(w.c) THEN w ELSE [O |-> w.O, c |-> NormalCompletion("O")]

-----------------------------------------------------------------------------
(* 22.1.3.26 Array.prototype.splice                                         *)

\* Lines 440-449: copy the deleted elements into A.
RECURSIVE splice_copy(_, _, _, _, _)
splice_copy(obj, arr, k, actualStart, actualDeleteCount) ==
  IF ~(k < actualDeleteCount)
    THEN [O |-> arr, c |-> NormalCompletion(Undefined)]
    ELSE IF HasProperty(obj, actualStart + k)
           THEN LET p == CreateDataPropertyOrThrow(arr, k, Get(obj, actualStart + k))
                IN IF IsAbrupt(p.c) THEN p
                   ELSE splice_copy(obj, p.O, k + 1, actualStart, actualDeleteCount)
           ELSE splice_copy(obj, arr, k + 1, actualStart, actualDeleteCount)

\* Lines 453-465: close the gap, lowest index first.
RECURSIVE splice_moveDown(_, _, _, _, _)
splice_moveDown(obj, k, len, actualDeleteCount, itemCount) ==
  IF ~(k < len - actualDeleteCount)
    THEN [O |-> obj, c |-> NormalCompletion(Undefined)]
    ELSE LET m == MoveProperty(obj, k + actualDeleteCount, k + itemCount)
         IN IF IsAbrupt(m.c) THEN m
            ELSE splice_moveDown(m.O, k + 1, len, actualDeleteCount, itemCount)

\* Lines 466-470: delete the tail left over, highest index first.
RECURSIVE splice_trim(_, _, _)
splice_trim(obj, k, newLen) ==
  IF ~(k > newLen)
    THEN [O |-> obj, c |-> NormalCompletion(Undefined)]
    ELSE LET d == DeletePropertyOrThrow(obj, k - 1)
         IN IF IsAbrupt(d.c) THEN d ELSE splice_trim(d.O, k - 1, newLen)

\* Lines 472-484: open the gap, highest index first.
RECURSIVE splice_moveUp(_, _, _, _, _)
splice_moveUp(obj, k, actualStart, actualDeleteCount, itemCount) ==
  IF ~(k > actualStart)
    THEN [O |-> obj, c |-> NormalCompletion(Undefined)]
    ELSE LET m == MoveProperty(obj, k + actualDeleteCount - 1, k + itemCount - 1)
         IN IF IsAbrupt(m.c) THEN m
            ELSE splice_moveUp(m.O, k - 1, actualStart, actualDeleteCount, itemCount)

splice_shift_noGap(obj, len, actualStart, actualDeleteCount, itemCount) ==
  IF itemCount < actualDeleteCount
    THEN LET w == splice_moveDown(obj, actualStart, len, actualDeleteCount, itemCount)
         IN IF IsAbrupt(w.c) THEN w
            ELSE splice_trim(w.O, len, len - actualDeleteCount + itemCount)
    ELSE [O |-> obj, c |-> NormalCompletion(Undefined)]

\* Lines 451-485.
splice_shift(obj, len, actualStart, actualDeleteCount, itemCount) ==
  IF itemCount < actualDeleteCount
    THEN LET w == splice_moveDown(obj, actualStart, len, actualDeleteCount, itemCount)
         IN IF IsAbrupt(w.c) THEN w
            ELSE splice_trim(w.O, len, len - actualDeleteCount + itemCount)
    ELSE IF itemCount > actualDeleteCount
           THEN splice_moveUp(obj, len - actualDeleteCount, actualStart,
                              actualDeleteCount, itemCount)
           ELSE [O |-> obj, c |-> NormalCompletion(Undefined)]

\* args holds the numeric arguments given (start, deleteCount), items the
\* rest; items is empty unless both numeric arguments are given.
ArrayProto_splice(obj, args, items, species) ==
  LET len == ToLength(obj.length)
      actualStart == RelativeIndex(Arg(args, 1, 0), len)
      insertCount == IF Len(args) < 2 THEN 0 ELSE Len(items)
      actualDeleteCount ==
        IF Len(args) = 0 THEN 0
        ELSE IF Len(args) = 1 THEN len - actualStart
        ELSE Min(Max(args[2], 0), len - actualStart)
      itemCount == Len(items)
  IN IF len + insertCount - actualDeleteCount > MAX_SAFE_INTEGER
       THEN [O |-> obj, c |-> Throw("TypeError: ArrayPastSafeLength"), A |-> NoObject]
       ELSE
  LET a0 == ArraySpeciesCreate(species, actualDeleteCount)
  IN IF IsAbrupt(a0.c) THEN [O |-> obj, c |-> a0.c, A |-> NoObject] ELSE
  LET a1 == splice_copy(obj, a0.O, 0, actualStart, actualDeleteCount)
  IN IF IsAbrupt(a1.c) THEN [O |-> obj, c |-> a1.c, A |-> NoObject] ELSE
  LET a2 == SetLength(a1.O, actualDeleteCount)
  IN IF IsAbrupt(a2.c) THEN [O |-> obj, c |-> a2.c, A |-> NoObject] ELSE
  LET o1 == splice_shift(obj, len, actualStart, actualDeleteCount, itemCount)
  IN IF IsAbrupt(o1.c) THEN [O |-> o1.O, c |-> o1.c, A |-> NoObject] ELSE
  LET o2 == store_items(o1.O, items, actualStart)
  IN IF IsAbrupt(o2.c) THEN [O |-> o2.O, c |-> o2.c, A |-> NoObject] ELSE
  LET o3 == SetLength(o2.O, len - actualDeleteCount + itemCount)
  IN IF IsAbrupt(o3.c) THEN [O |-> o3.O, c |-> o3.c, A |-> NoObject]
     ELSE [O |-> o3.O, c |-> NormalCompletion("A"), A |-> a2.O]

-----------------------------------------------------------------------------
(* 22.1.3.1 Array.prototype.concat                                          *)

\* An item of concat: a primitive value, or an object E.
Prim(v) == [spreadable |-> FALSE, val |-> v, obj |-> NoObject]
Spreadable(obj) == [spreadable |-> TRUE, val |-> "object", obj |-> obj]

\* IsConcatSpreadable(E), for an E without @@isConcatSpreadable: IsArray(E).
IsConcatSpreadable(E) == E.spreadable

\* Lines 52-62: append the elements of E; the result carries n in c.num.
RECURSIVE concat_spread(_, _, _, _, _)
concat_spread(arr, E, k, len, n) ==
  IF ~(k < len)
    THEN [O |-> arr, c |-> NumberCompletion(n)]
    ELSE IF HasProperty(E, k)
           THEN LET p == CreateDataPropertyOrThrow(arr, n, Get(E, k))
                IN IF IsAbrupt(p.c) THEN p ELSE concat_spread(p.O, E, k + 1, len, n + 1)
           ELSE concat_spread(arr, E, k + 1, len, n + 1)

\* Lines 42-71.
RECURSIVE concat_items(_, _, _)
concat_items(arr, items, n) ==
  IF Len(items) = 0
    THEN [O |-> arr, c |-> NumberCompletion(n)]
    ELSE LET E == Head(items)
         IN IF IsConcatSpreadable(E)
              THEN LET len == ToLength(E.obj.length)
                   IN IF n + len > MAX_SAFE_INTEGER
                        THEN [O |-> arr, c |-> Throw("TypeError: ArrayPastSafeLength")]
                        ELSE LET w == concat_spread(arr, E.obj, 0, len, n)
                             IN IF IsAbrupt(w.c) THEN w
                                ELSE concat_items(w.O, Tail(items), w.c.num)
              ELSE IF n >= MAX_SAFE_INTEGER
                     THEN [O |-> arr, c |-> Throw("TypeError: ArrayPastSafeLength")]
                     ELSE LET p == CreateDataPropertyOrThrow(arr, n, E.val)
                          IN IF IsAbrupt(p.c) THEN p
                             ELSE concat_items(p.O, Tail(items), n + 1)

\* The receiver is spread when it is an array exotic.
ArrayProto_concat(obj, args, species) ==
  LET a0 == ArraySpeciesCreate(species, 0)
  IN IF IsAbrupt(a0.c) THEN [O |-> obj, c |-> a0.c, A |-> NoObject] ELSE
  LET first == IF obj.kind = "array" THEN Spreadable(obj)
               ELSE [spreadable |-> FALSE, val |-> "O", obj |-> obj]
      w == concat_items(a0.O, <<first>> \o args, 0)
  IN IF IsAbrupt(w.c) THEN [O |-> obj, c |-> w.c, A |-> NoObject] ELSE
  LET s == SetLength(w.O, w.c.num)
  IN IF IsAbrupt(s.c) THEN [O |-> obj, c |-> s.c, A |-> NoObject]
     ELSE [O |-> obj, c |-> NormalCompletion("A"), A |-> s.O]

-----------------------------------------------------------------------------
(* The receivers and arguments the calls are made with.                     *)

\* Every own index key lies below length.
IndexKeysBelowLength(obj) == \A k \in Idx : HasProperty(obj, k) => k < obj.length

\* Array exotics and array-likes (ordinary objects with a length), with holes,
\* with at most one non-writable, non-configurable element.
Receivers ==
  { obj \in [kind : {"array", "ordinary"},
             length : 0 .. MAX_SAFE_INTEGER,
             elems : [Idx -> Vals \cup {Hole}],
             locked : {{}} \cup {{k} : k \in Idx}] :
      /\ IndexKeysBelowLength(obj)
      /\ \A k \in obj.locked : HasProperty(obj, k)
      /\ obj.kind = "array" => obj.length <= MaxArrayLen }

RECURSIVE SeqsUpTo(_, _)
SeqsUpTo(S, n) ==
  IF n = 0 THEN {<<>>}
  ELSE LET shorter == SeqsUpTo(S, n - 1)
       IN shorter \cup {Append(q, x) : q \in {r \in shorter : Len(r) = n - 1}, x \in S}

ItemLists == SeqsUpTo(Vals, MaxItems)

\* Integer arguments: relative indices and counts, from below -len to above len.
RelArgs == -2 .. MAX_SAFE_INTEGER

\* The arguments of concat: primitives and small arrays, one with a hole.
ConcatArgs ==
  { Prim("a"),
    Spreadable([ArrayCreate(1) EXCEPT !.elems[0] = "b"]),
    Spreadable([ArrayCreate(2) EXCEPT !.elems[1] = "a"]) }

NoCall == [name |-> "none", items |-> <<>>, args |-> <<>>, species |-> "array"]

\* The array exotic cannot grow past MaxArrayLen (2^32 - 1 is far below
\* 2^53 - 1); array-likes can have any length.
Fits(obj, grow) == obj.kind = "array" => ToLength(obj.length) + grow <= MaxArrayLen

\* A call returns: the receiver, the completion and the created array are
\* recorded with the call made.
Return(name, items, args, species, r, arr) ==
  /\ O' = r.O
  /\ ret' = r.c
  /\ A' = arr
  /\ pre' = O
  /\ call' = [name |-> name, items |-> items, args |-> args, species |-> species]
  /\ clean' = (clean /\ ~IsAbrupt(r.c))
  /\ UNCHANGED <<iterVars, cliVars>>

Idle == call.name = "none"

Push ==
  /\ Idle
  /\ \E items \in ItemLists :
       /\ Fits(O, Len(items))
       /\ Return("push", items, <<>>, "array", ArrayProto_push(O, items), NoObject)

Pop ==
  /\ Idle
  /\ Return("pop", <<>>, <<>>, "array", ArrayProto_pop(O), NoObject)

Shift ==
  /\ Idle
  /\ Return("shift", <<>>, <<>>, "array", ArrayProto_shift(O), NoObject)

Unshift ==
  /\ Idle
  /\ \E items \in ItemLists :
       /\ Fits(O, Len(items))
       /\ Return("unshift", items, <<>>, "array", ArrayProto_unshift(O, items), NoObject)

Fill ==
  /\ Idle
  /\ \E value \in Vals, args \in SeqsUpTo(RelArgs, 2) :
       Return("fill", <<value>>, args, "array", ArrayProto_fill(O, value, args), NoObject)

CopyWithin ==
  /\ Idle
  /\ \E args \in SeqsUpTo(RelArgs, 3) :
       Return("copyWithin", <<>>, args, "array", ArrayProto_copyWithin(O, args), NoObject)

Splice ==
  /\ Idle
  /\ \E args \in SeqsUpTo(RelArgs, 2), items \in ItemLists, species \in {"array", "throw"} :
       /\ Len(args) < 2 => items = <<>>
       /\ Fits(O, Len(items))
       /\ LET r == ArrayProto_splice(O, args, items, species)
          IN Return("splice", items, args, species, r, r.A)

Concat ==
  /\ Idle
  /\ \E args \in SeqsUpTo(ConcatArgs, MaxItems), species \in {"array", "throw"} :
       LET r == ArrayProto_concat(O, args, species)
       IN Return("concat", args, <<>>, species, r, r.A)

\* shift called on the receiver right after an unshift that returned
\* normally; the receiver before the unshift stays recorded.
ShiftAfterUnshift ==
  /\ call.name = "unshift" /\ ~IsAbrupt(ret)
  /\ LET r == ArrayProto_shift(O)
     IN /\ O' = r.O
        /\ ret' = r.c
        /\ clean' = (clean /\ ~IsAbrupt(r.c))
  /\ call' = [call EXCEPT !.name = "unshift,shift"]
  /\ UNCHANGED <<pre, A, iterVars, cliVars>>

\* The caller goes on to its next statement: the completion is dropped.
NextStatement ==
  /\ ~Idle
  /\ pre' = NoObject
  /\ call' = NoCall
  /\ ret' = NormalCompletion(Undefined)
  /\ A' = NoObject
  /\ UNCHANGED <<O, clean, iterVars, cliVars>>

InitArray ==
  /\ O \in Receivers
  /\ pre = NoObject
  /\ call = NoCall
  /\ ret = NormalCompletion(Undefined)
  /\ A = NoObject
  /\ clean = TRUE

ArrayMethod ==
  \/ Push \/ Pop \/ Shift \/ Unshift \/ Fill \/ CopyWithin \/ Splice \/ Concat
  \/ ShiftAfterUnshift \/ NextStatement

-----------------------------------------------------------------------------
(* Values of the iterating methods: holes, atoms and (nested) arrays.       *)

MaxSlots == 6        \* elements, nested ones included, of a receiver of flat
MaxIterLen == 3      \* length of a receiver of map, filter, flatMap

HoleSlot == [t |-> "hole", n |-> 0, items |-> <<>>]
Atom(n) == [t |-> "atom", n |-> n, items |-> <<>>]
Arr(items) == [t |-> "arr", n |-> 0, items |-> items]

\* Numbers that may be Infinity (the depth of flat).
Num(n) == [inf |-> FALSE, n |-> n]
Infinity == [inf |-> TRUE, n |-> 0]

\* ToInteger of the depth argument: NaN gives 0.
ToInteger(arg) ==
  IF arg.t = "inf" THEN Infinity
  ELSE IF arg.t = "nan" THEN Num(0)
  ELSE Num(arg.n)

\* The operations performed so far, and the one (by position) that returns
\* an abrupt completion; 0 for none.
NewContext(faultAt) == [log |-> <<>>, faultAt |-> faultAt, effects |-> <<>>]
Event(ctx, op, k) == [ctx EXCEPT !.log = Append(@, [op |-> op, k |-> k])]
Failed(ctx) == Len(ctx.log) = ctx.faultAt
Fault(ctx) == [type |-> "throw", val |-> ctx.log[Len(ctx.log)].op, num |-> Len(ctx.log)]

Holes(n) == [i \in 1 .. n |-> HoleSlot]

\* CreateDataProperty on a result array: index k (from 0) gets v.
Put(arr, k, v) ==
  [i \in 1 .. Max(Len(arr), k + 1) |->
     IF i = k + 1 THEN v ELSE IF i <= Len(arr) THEN arr[i] ELSE HoleSlot]

Present(source, k) == k < Len(source.items) /\ source.items[k + 1].t # "hole"

\* What the callback does to the receiver when called at index k: nothing,
\* push a new element, delete or change the element after k, or set length
\* to k + 1.
Effects == {"none", "append", "deleteNext", "setNext", "truncate"}

Effect(items, e, k) ==
  CASE e = "none" -> items
    [] e = "append" -> Append(items, Atom(50 + k))
    [] e = "deleteNext" ->
         IF k + 2 <= Len(items) THEN [items EXCEPT ![k + 2] = HoleSlot] ELSE items
    [] e = "setNext" ->
         IF k + 2 <= Len(items) THEN [items EXCEPT ![k + 2] = Atom(60 + k)] ELSE items
    [] e = "truncate" -> SubSeq(items, 1, Min(Len(items), k + 1))

EffectAt(effects, k) == IF k + 1 <= Len(effects) THEN effects[k + 1] ELSE "none"

\* The receiver once the callback called at index k has returned.
AfterCall(ctx, this, k) == Arr(Effect(this.items, EffectAt(ctx.effects, k), k))

\* What the callback returns at index k: map's value, filter's verdict,
\* flatMap's element or array.
MappedValue(k) == Atom(100 + k)
Selected(plan, k) == plan[k + 1]
FlatMapped(plan, k) ==
  IF plan[k + 1] THEN Arr(<<Atom(200 + k), HoleSlot, Arr(<<Atom(300 + k)>>)>>)
  ELSE Atom(100 + k)

NoMapper == <<>>
Result(ctx, c, arr) == [ctx |-> ctx, c |-> c, A |-> arr]

-----------------------------------------------------------------------------
(* FlattenIntoArray                                                         *)

\* depth > 0 and depth - 1.
Positive(depth) == depth.inf \/ depth.n > 0
Decrement_same(depth) == depth
Decrement(depth) == IF depth.inf THEN depth ELSE Num(depth.n - 1)

\* mapper is the plan of the mapper function, or NoMapper; hasMapper tells.
\* The result carries targetIndex in c.num.
RECURSIVE FlattenIntoArray(_, _, _, _, _, _, _, _)
FlattenIntoArray(ctx, target, source, sourceLen, start, depth, hasMapper, mapper) ==
  LET RECURSIVE loop(_, _, _, _)
      loop(cx, tgt, targetIndex, sourceIndex) ==
        IF ~(sourceIndex < sourceLen) THEN Result(cx, NumberCompletion(targetIndex), tgt) ELSE
        LET c1 == Event(cx, "HasProperty", sourceIndex)
        IN IF Failed(c1) THEN Result(c1, Fault(c1), tgt) ELSE
           IF ~Present(source, sourceIndex) THEN loop(c1, tgt, targetIndex, sourceIndex + 1) ELSE
        LET c2 == Event(c1, "Get", sourceIndex)
        IN IF Failed(c2) THEN Result(c2, Fault(c2), tgt) ELSE
        LET c3 == IF hasMapper THEN Event(c2, "Call", sourceIndex) ELSE c2
        IN IF hasMapper /\ Failed(c3) THEN Result(c3, Fault(c3), tgt) ELSE
        LET element == IF hasMapper THEN FlatMapped(mapper, sourceIndex)
                       ELSE source.items[sourceIndex + 1]
            c4 == IF Positive(depth) THEN Event(c3, "IsArray", sourceIndex) ELSE c3
        IN IF Positive(depth) /\ Failed(c4) THEN Result(c4, Fault(c4), tgt) ELSE
           IF Positive(depth) /\ element.t = "arr"
             THEN LET c5 == Event(c4, "Get length", sourceIndex)
                  IN IF Failed(c5) THEN Result(c5, Fault(c5), tgt) ELSE
                  LET c6 == Event(c5, "ToLength", sourceIndex)
                  IN IF Failed(c6) THEN Result(c6, Fault(c6), tgt) ELSE
                  LET r == FlattenIntoArray(c6, tgt, element, Len(element.items),
                                            targetIndex, Decrement(depth), FALSE, NoMapper)
                  IN IF IsAbrupt(r.c) THEN r
                     ELSE loop(r.ctx, r.A, r.c.num, sourceIndex + 1)
             ELSE IF targetIndex >= MAX_SAFE_INTEGER
                    THEN Result(c4, Throw("TypeError"), tgt)
                    ELSE LET c7 == Event(c4, "CreateDataPropertyOrThrow", targetIndex)
                         IN IF Failed(c7) THEN Result(c7, Fault(c7), tgt)
                            ELSE loop(c7, Put(tgt, targetIndex, element),
                                      targetIndex + 1, sourceIndex + 1)
  IN loop(ctx, target, start, 0)

-----------------------------------------------------------------------------
(* The preamble shared by the iterating methods: ToObject(thisValue),       *)
(* Get(O, "length"), ToLength(lenProp).                                     *)

ReadLength(ctx) ==
  LET c1 == Event(ctx, "ToObject", -1)
  IN IF Failed(c1) THEN Result(c1, Fault(c1), <<>>) ELSE
  LET c2 == Event(c1, "Get length", -1)
  IN IF Failed(c2) THEN Result(c2, Fault(c2), <<>>) ELSE
  LET c3 == Event(c2, "ToLength", -1)
  IN IF Failed(c3) THEN Result(c3, Fault(c3), <<>>)
     ELSE Result(c3, NormalCompletion(Undefined), <<>>)

\* Array.prototype.flat
ArrayProto_flat(this, depth, ctx) ==
  LET p == ReadLength(ctx)
  IN IF IsAbrupt(p.c) THEN p ELSE
  LET sourceLen == Len(this.items)
      c4 == IF depth.t # "undefined" THEN Event(p.ctx, "ToInteger", -1) ELSE p.ctx
  IN IF depth.t # "undefined" /\ Failed(c4) THEN Result(c4, Fault(c4), <<>>) ELSE
  LET depthNum == IF depth.t # "undefined" THEN ToInteger(depth) ELSE Num(1)
      c5 == Event(c4, "ArraySpeciesCreate", 0)
  IN IF Failed(c5) THEN Result(c5, Fault(c5), <<>>) ELSE
  LET r == FlattenIntoArray(c5, <<>>, this, sourceLen, 0, depthNum, FALSE, NoMapper)
  IN IF IsAbrupt(r.c) THEN Result(r.ctx, r.c, <<>>)
     ELSE Result(r.ctx, NormalCompletion("A"), r.A)

\* Array.prototype.flatMap
ArrayProto_flatMap(this, callable, plan, ctx) ==
  LET p == ReadLength(ctx)
  IN IF IsAbrupt(p.c) THEN p ELSE
  LET sourceLen == Len(this.items)
      c4 == Event(p.ctx, "IsCallable", -1)
  IN IF ~callable THEN Result(c4, Throw("TypeError"), <<>>) ELSE
  LET c5 == Event(c4, "ArraySpeciesCreate", 0)
  IN IF Failed(c5) THEN Result(c5, Fault(c5), <<>>) ELSE
  LET r == FlattenIntoArray(c5, <<>>, this, sourceLen, 0, Num(1), TRUE, plan)
  IN IF IsAbrupt(r.c) THEN Result(r.ctx, r.c, <<>>)
     ELSE Result(r.ctx, NormalCompletion("A"), r.A)

-----------------------------------------------------------------------------
(* 22.1.3.16 Array.prototype.map                                            *)

\* map reading the length of the receiver anew at every index.
RECURSIVE map_liveLength(_, _, _, _, _)
map_liveLength(ctx, arr, this, k, len) ==
  IF ~(k < Len(this.items)) THEN Result(ctx, NormalCompletion("A"), arr) ELSE
  LET c1 == Event(ctx, "HasProperty", k)
  IN IF Failed(c1) THEN Result(c1, Fault(c1), <<>>) ELSE
     IF ~Present(this, k) THEN map_liveLength(c1, arr, this, k + 1, len) ELSE
  LET c2 == Event(c1, "Get", k)
  IN IF Failed(c2) THEN Result(c2, Fault(c2), <<>>) ELSE
  LET c3 == Event(c2, "Call", k)
  IN IF Failed(c3) THEN Result(c3, Fault(c3), <<>>) ELSE
  LET c4 == Event(c3, "CreateDataPropertyOrThrow", k)
  IN IF Failed(c4) THEN Result(c4, Fault(c4), <<>>)
     ELSE map_liveLength(c4, Put(arr, k, MappedValue(k)), AfterCall(c3, this, k), k + 1, len)

RECURSIVE map_loop(_, _, _, _, _)
map_loop(ctx, arr, this, k, len) ==
  IF ~(k < len) THEN Result(ctx, NormalCompletion("A"), arr) ELSE
  LET c1 == Event(ctx, "HasProperty", k)
  IN IF Failed(c1) THEN Result(c1, Fault(c1), <<>>) ELSE
     IF ~Present(this, k) THEN map_loop(c1, arr, this, k + 1, len) ELSE
  LET c2 == Event(c1, "Get", k)
  IN IF Failed(c2) THEN Result(c2, Fault(c2), <<>>) ELSE
  LET c3 == Event(c2, "Call", k)
  IN IF Failed(c3) THEN Result(c3, Fault(c3), <<>>) ELSE
  LET c4 == Event(c3, "CreateDataPropertyOrThrow", k)
  IN IF Failed(c4) THEN Result(c4, Fault(c4), <<>>)
     ELSE map_loop(c4, Put(arr, k, MappedValue(k)), AfterCall(c3, this, k), k + 1, len)

\* map checking the callback before it reads length.
map_callableFirst(this, callable, ctx) ==
  LET c0 == Event(ctx, "IsCallable", -1)
  IN IF ~callable THEN Result(c0, Throw("TypeError"), <<>>) ELSE
  LET p == ReadLength(c0)
  IN IF IsAbrupt(p.c) THEN p ELSE
  LET len == Len(this.items)
      c5 == Event(p.ctx, "ArraySpeciesCreate", len)
  IN IF Failed(c5) THEN Result(c5, Fault(c5), <<>>)
     ELSE map_loop(c5, Holes(len), this, 0, len)

ArrayProto_map(this, callable, ctx) ==
  LET p == ReadLength(ctx)
  IN IF IsAbrupt(p.c) THEN p ELSE
  LET len == Len(this.items)
      c4 == Event(p.ctx, "IsCallable", -1)
  IN IF ~callable THEN Result(c4, Throw("TypeError"), <<>>) ELSE
  LET c5 == Event(c4, "ArraySpeciesCreate", len)
  IN IF Failed(c5) THEN Result(c5, Fault(c5), <<>>)
     ELSE map_loop(c5, Holes(len), this, 0, len)

-----------------------------------------------------------------------------
(* 22.1.3.7 Array.prototype.filter                                          *)

\* filter going on after an abrupt completion of the callback.
RECURSIVE filter_ignoreThrow(_, _, _, _, _, _, _)
filter_ignoreThrow(ctx, arr, this, plan, k, to, len) ==
  IF ~(k < len) THEN Result(ctx, NormalCompletion("A"), arr) ELSE
  LET c1 == Event(ctx, "HasProperty", k)
  IN IF Failed(c1) THEN Result(c1, Fault(c1), <<>>) ELSE
     IF ~Present(this, k) THEN filter_ignoreThrow(c1, arr, this, plan, k + 1, to, len) ELSE
  LET c2 == Event(c1, "Get", k)
  IN IF Failed(c2) THEN Result(c2, Fault(c2), <<>>) ELSE
  LET kValue == this.items[k + 1]
      c3 == Event(c2, "Call", k)
  IN IF Failed(c3) \/ ~Selected(plan, k)
       THEN filter_ignoreThrow(c3, arr, AfterCall(c3, this, k), plan, k + 1, to, len) ELSE
  LET c4 == Event(c3, "CreateDataPropertyOrThrow", to)
  IN IF Failed(c4) THEN Result(c4, Fault(c4), <<>>)
     ELSE filter_ignoreThrow(c4, Put(arr, to, kValue), AfterCall(c3, this, k), plan,
                             k + 1, to + 1, len)

RECURSIVE filter_loop(_, _, _, _, _, _, _)
filter_loop(ctx, arr, this, plan, k, to, len) ==
  IF ~(k < len) THEN Result(ctx, NormalCompletion("A"), arr) ELSE
  LET c1 == Event(ctx, "HasProperty", k)
  IN IF Failed(c1) THEN Result(c1, Fault(c1), <<>>) ELSE
     IF ~Present(this, k) THEN filter_loop(c1, arr, this, plan, k + 1, to, len) ELSE
  LET c2 == Event(c1, "Get", k)
  IN IF Failed(c2) THEN Result(c2, Fault(c2), <<>>) ELSE
  LET kValue == this.items[k + 1]
      c3 == Event(c2, "Call", k)
  IN IF Failed(c3) THEN Result(c3, Fault(c3), <<>>) ELSE
     IF ~Selected(plan, k)
       THEN filter_loop(c3, arr, AfterCall(c3, this, k), plan, k + 1, to, len) ELSE
  LET c4 == Event(c3, "CreateDataPropertyOrThrow", to)
  IN IF Failed(c4) THEN Result(c4, Fault(c4), <<>>)
     ELSE filter_loop(c4, Put(arr, to, kValue), AfterCall(c3, this, k), plan,
                      k + 1, to + 1, len)

ArrayProto_filter(this, callable, plan, ctx) ==
  LET p == ReadLength(ctx)
  IN IF IsAbrupt(p.c) THEN p ELSE
  LET len == Len(this.items)
      c4 == Event(p.ctx, "IsCallable", -1)
  IN IF ~callable THEN Result(c4, Throw("TypeError"), <<>>) ELSE
  LET c5 == Event(c4, "ArraySpeciesCreate", 0)
  IN IF Failed(c5) THEN Result(c5, Fault(c5), <<>>)
     ELSE filter_loop(c5, <<>>, this, plan, 0, 0, len)

-----------------------------------------------------------------------------
(* Calls of the iterating methods.                                          *)

CallMethod(in, faultAt) ==
  LET ctx == [NewContext(faultAt) EXCEPT !.effects = in.effects]
  IN CASE in.method = "flat" -> ArrayProto_flat(in.this, in.depth, ctx)
       [] in.method = "flatMap" -> ArrayProto_flatMap(in.this, in.callable, in.plan, ctx)
       [] in.method = "map" -> ArrayProto_map(in.this, in.callable, ctx)
       [] in.method = "filter" -> ArrayProto_filter(in.this, in.callable, in.plan, ctx)

Invoke ==
  /\ ~done
  /\ LET r == CallMethod(inp, inp.faultAt)
     IN /\ log' = r.ctx.log
        /\ out' = r.A
        /\ res' = r.c
  /\ done' = TRUE
  /\ UNCHANGED <<inp, arrVars, cliVars>>

\* Nested arrays with n elements in all, nested ones included.
RECURSIVE ShapesExact(_)
RECURSIVE SlotShapes(_)
SlotShapes(c) ==
  IF c = 1 THEN {HoleSlot, Atom(0), Arr(<<>>)}
  ELSE {Arr(x) : x \in ShapesExact(c - 1)}
ShapesExact(n) ==
  IF n = 0 THEN {<<>>}
  ELSE UNION {{<<s>> \o rest : s \in SlotShapes(c), rest \in ShapesExact(n - c)} : c \in 1 .. n}

\* The atoms numbered 1, 2, ... in source order.
RECURSIVE Label(_, _)
Label(items, next) ==
  IF Len(items) = 0 THEN [items |-> <<>>, next |-> next] ELSE
  LET s == Head(items)
      h == IF s.t = "atom" THEN [slot |-> Atom(next), next |-> next + 1]
           ELSE IF s.t = "arr"
             THEN LET r == Label(s.items, next) IN [slot |-> Arr(r.items), next |-> r.next]
             ELSE [slot |-> s, next |-> next]
      t == Label(Tail(items), h.next)
  IN [items |-> <<h.slot>> \o t.items, next |-> t.next]

NestedArrays == {Arr(Label(x, 1).items) : x \in UNION {ShapesExact(n) : n \in 0 .. MaxSlots}}

DepthArgs ==
  {[t |-> "undefined", n |-> 0], [t |-> "nan", n |-> 0], [t |-> "inf", n |-> 0]}
    \cup {[t |-> "num", n |-> d] : d \in -1 .. 3}

NoInput == [method |-> "none", this |-> Arr(<<>>), depth |-> [t |-> "undefined", n |-> 0],
            callable |-> TRUE, plan |-> <<>>, faultAt |-> 0, effects |-> <<>>]

IterIdle ==
  /\ inp = NoInput
  /\ log = <<>>
  /\ out = <<>>
  /\ res = NormalCompletion(Undefined)
  /\ done = TRUE

ArrayIdle ==
  /\ O = NoObject
  /\ pre = NoObject
  /\ call = NoCall
  /\ ret = NormalCompletion(Undefined)
  /\ A = NoObject
  /\ clean = TRUE

InitFlat ==
  /\ \E this \in NestedArrays, depth \in DepthArgs :
       inp = [NoInput EXCEPT !.method = "flat", !.this = this, !.depth = depth]
  /\ log = <<>>
  /\ out = <<>>
  /\ res = NormalCompletion(Undefined)
  /\ done = FALSE

\* Receivers of map, filter, flatMap: atoms k+1 at index k, or holes.
FlatArrays ==
  UNION {{Arr([i \in 1 .. n |-> IF i \in present THEN Atom(i) ELSE HoleSlot]) :
            present \in SUBSET (1 .. n)} : n \in 0 .. MaxIterLen}

\* Every operation of the call, in turn, may be the one that fails.
InitIter ==
  /\ \E method \in {"map", "filter", "flatMap"}, this \in FlatArrays, callable \in BOOLEAN :
       \E plan \in [1 .. Len(this.items) -> BOOLEAN] :
         LET in == [NoInput EXCEPT !.method = method, !.this = this,
                                   !.callable = callable, !.plan = plan]
         IN \E f \in 0 .. Len(CallMethod(in, 0).ctx.log) :
              inp = [in EXCEPT !.faultAt = f]
  /\ log = <<>>
  /\ out = <<>>
  /\ res = NormalCompletion(Undefined)
  /\ done = FALSE

\* Calls of map and filter whose callback changes the receiver as it runs.
InitMutate ==
  /\ \E method \in {"map", "filter"}, this \in FlatArrays :
       \E plan \in [1 .. Len(this.items) -> BOOLEAN],
          effects \in [1 .. Len(this.items) -> Effects] :
         inp = [NoInput EXCEPT !.method = method, !.this = this,
                               !.plan = plan, !.effects = effects]
  /\ log = <<>>
  /\ out = <<>>
  /\ res = NormalCompletion(Undefined)
  /\ done = FALSE

NextIter == Invoke

NextArray == ArrayMethod


-----------------------------------------------------------------------------
(* The command line: createRealm's resolver hook and main's file mode.      *)

MaxDepth == 4        \* calls of createSourceTextModule and Link in progress at once

Files == {"/a", "/b", "/c"}
Entry == "/a"

\* path.resolve(path.dirname(referencingModule.specifier), specifier): the
\* files share one directory and are imported as "./a", "./b", "./c".
Specifiers == {"./a", "./b", "./c"}
PathResolve(referencing, specifier) ==
  CASE specifier = "./a" -> "/a"
    [] specifier = "./b" -> "/b"
    [] specifier = "./c" -> "/c"

\* Specifiers are requested in source order, taken here as their name order.
First(todo) ==
  IF "./a" \in todo THEN "./a" ELSE IF "./b" \in todo THEN "./b" ELSE "./c"

None == [kind |-> "none", id |-> 0]
Module(id) == [kind |-> "module", id |-> id]
Abrupt == [kind |-> "abrupt", id |-> 0]
Promise(state) == [kind |-> state, id |-> 0]

Frame(fn, path, module, todo, viaResolver) ==
  [fn |-> fn, path |-> path, module |-> module, todo |-> todo, viaResolver |-> viaResolver]

Top == stack[Len(stack)]
PopFrame(st) == SubSeq(st, 1, Len(st) - 1)
SetTop(st, f) == [st EXCEPT ![Len(st)] = f]

NoHist ==
  [createCount |-> [f \in Files |-> 0], resolveLog |-> <<>>,
   createRet |-> "none", linkRet |-> "none", evalRet |-> "none", scriptRet |-> "none"]

\* Lines 28-38: the resolver up to its call of createSourceTextModule;
\* "create" stands for going on to lines 39-42.
resolveImportedModule(referencing, specifier) ==
  LET resolved == PathResolve(referencing, specifier)
  IN IF moduleEntry # 0 /\ resolved = modules[moduleEntry].specifier
       THEN Module(moduleEntry)
       ELSE IF moduleCache[resolved].kind # "none"
              THEN moduleCache[resolved]
              ELSE IF ~files.exists[resolved]
                     THEN Abrupt
                     ELSE [kind |-> "create", id |-> 0]

\* Lines 171-175, 190: main reads the input file and parses it as a module,
\* or runs it as a script.
CliStart ==
  /\ pc = "start"
  /\ IF files.mode = "module"
       THEN /\ hist' = [hist EXCEPT !.createCount[Entry] = @ + 1]
            /\ stack' = <<Frame("create", Entry, 0, files.imports[Entry], FALSE)>>
            /\ pc' = "create"
            /\ UNCHANGED result
       ELSE /\ \E abrupt \in BOOLEAN :
                 /\ result' = IF abrupt THEN Abrupt ELSE Promise("value")
                 /\ hist' = [hist EXCEPT !.scriptRet = IF abrupt THEN "abrupt" ELSE "normal"]
            /\ pc' = "report"
            /\ UNCHANGED stack
  /\ UNCHANGED <<files, retv, modules, moduleEntry, moduleCache, proc>>
  /\ UNCHANGED <<arrVars, iterVars>>

\* The module being parsed or linked asks the host for its next requested
\* module.  Lines 28-40: the resolver answers from moduleEntry or the cache,
\* throws for a missing file, or calls createSourceTextModule.
Resolve ==
  /\ Len(stack) > 0 /\ retv = None /\ Top.todo # {}
  /\ LET r == resolveImportedModule(Top.path, First(Top.todo))
         resolved == PathResolve(Top.path, First(Top.todo))
     IN IF r.kind # "create"
          THEN /\ retv' = r
               /\ UNCHANGED <<stack, hist>>
          ELSE /\ Len(stack) < MaxDepth
               /\ hist' = [hist EXCEPT !.createCount[resolved] = @ + 1]
               /\ stack' = Append(stack, Frame("create", resolved, 0,
                                               files.imports[resolved], TRUE))
               /\ UNCHANGED retv
  /\ UNCHANGED <<files, pc, modules, moduleEntry, moduleCache, result, proc>>
  /\ UNCHANGED <<arrVars, iterVars>>

\* A call of createSourceTextModule returns c.  Lines 40-42 when the
\* resolver made it: the value is cached, abrupt or not, and returned;
\* lines 175-176 when main made it.
CreateReturns(c, newModules) ==
  /\ modules' = newModules
  /\ stack' = PopFrame(stack)
  /\ IF Top.viaResolver
       THEN /\ moduleCache' = [moduleCache EXCEPT ![Top.path] = c]
            /\ retv' = c
            /\ UNCHANGED <<pc, result, hist>>
       ELSE /\ result' = c
            /\ hist' = [hist EXCEPT !.createRet = c.kind]
            /\ pc' = "created"
            /\ retv' = None
            /\ UNCHANGED moduleCache

\* createSourceTextModule ends: a SyntaxError, or a new module record once
\* every requested module has been asked for.
ParseEnds ==
  /\ Len(stack) > 0 /\ retv = None /\ Top.fn = "create"
  /\ IF ~files.syntaxOk[Top.path]
       THEN CreateReturns(Abrupt, modules)
       ELSE /\ Top.todo = {}
            /\ CreateReturns(Module(Len(modules) + 1),
                             Append(modules, [specifier |-> Top.path, status |-> "unlinked"]))
  /\ UNCHANGED <<files, moduleEntry, proc>>
  /\ UNCHANGED <<arrVars, iterVars>>

\* The resolver returns to the parse that called it.  What a parse does with
\* an abrupt completion is open: it fails with it, or leaves it to Link.
ParseGetsModule ==
  /\ Len(stack) > 0 /\ retv # None /\ Top.fn = "create"
  /\ LET logged == [hist EXCEPT !.resolveLog =
                      Append(@, [path |-> PathResolve(Top.path, First(Top.todo)), val |-> retv])]
     IN \E fails \in BOOLEAN :
          IF retv = Abrupt /\ fails
            THEN /\ stack' = PopFrame(stack)
                 /\ modules' = modules
                 /\ IF Top.viaResolver
                      THEN /\ moduleCache' = [moduleCache EXCEPT ![Top.path] = Abrupt]
                           /\ retv' = Abrupt
                           /\ hist' = logged
                           /\ UNCHANGED <<pc, result>>
                      ELSE /\ result' = Abrupt
                           /\ hist' = [logged EXCEPT !.createRet = "abrupt"]
                           /\ pc' = "created"
                           /\ retv' = None
                           /\ UNCHANGED moduleCache
            ELSE /\ stack' = SetTop(stack, [Top EXCEPT !.todo = @ \ {First(Top.todo)}])
                 /\ retv' = None
                 /\ hist' = logged
                 /\ UNCHANGED <<pc, result, modules, moduleCache>>
  /\ UNCHANGED <<files, moduleEntry, proc>>
  /\ UNCHANGED <<arrVars, iterVars>>

\* Lines 176-179: main keeps the module as realm.moduleEntry and links it.
MainLink ==
  /\ pc = "created"
  /\ IF result.kind = "abrupt"
       THEN /\ pc' = "report"
            /\ UNCHANGED <<stack, moduleEntry, modules, hist>>
       ELSE /\ moduleEntry' = result.id
            /\ modules' = [modules EXCEPT ![result.id].status = "linking"]
            /\ stack' = <<Frame("link", modules[result.id].specifier, result.id,
                                files.imports[modules[result.id].specifier], FALSE)>>
            /\ hist' = [hist EXCEPT !.linkRet = "called"]
            /\ pc' = "link"
  /\ UNCHANGED <<files, retv, moduleCache, result, proc>>
  /\ UNCHANGED <<arrVars, iterVars>>

\* The resolver returns to Link: an abrupt completion ends Link, a module
\* not yet linked is linked next.
LinkGetsModule ==
  /\ Len(stack) > 0 /\ retv # None /\ Top.fn = "link"
  /\ hist' = [hist EXCEPT
                !.resolveLog = Append(@, [path |-> PathResolve(Top.path, First(Top.todo)),
                                          val |-> retv]),
                !.linkRet = IF retv = Abrupt THEN "abrupt" ELSE @]
  /\ retv' = None
  /\ IF retv = Abrupt
       THEN /\ stack' = <<>>
            /\ modules' = [i \in 1 .. Len(modules) |->
                             [modules[i] EXCEPT !.status = IF @ = "linking" THEN "unlinked" ELSE @]]
            /\ result' = Abrupt
            /\ pc' = "linked"
       ELSE LET rest == SetTop(stack, [Top EXCEPT !.todo = @ \ {First(Top.todo)}])
                m == retv.id
            IN /\ IF modules[m].status = "unlinked"
                    THEN /\ stack' = Append(rest, Frame("link", modules[m].specifier, m,
                                                        files.imports[modules[m].specifier], FALSE))
                         /\ modules' = [modules EXCEPT ![m].status = "linking"]
                    ELSE /\ stack' = rest
                         /\ modules' = modules
               /\ UNCHANGED <<pc, result>>
  /\ UNCHANGED <<files, moduleEntry, moduleCache, proc>>
  /\ UNCHANGED <<arrVars, iterVars>>

\* A module has all its requested modules; the outermost one ends Link,
\* normally or with an error of its own (an unresolvable or ambiguous name).
LinkEnds ==
  /\ Len(stack) > 0 /\ retv = None /\ Top.fn = "link" /\ Top.todo = {}
  /\ stack' = PopFrame(stack)
  /\ modules' = [modules EXCEPT ![Top.module].status = "linked"]
  /\ IF Len(stack) = 1
       THEN \E fails \in BOOLEAN :
              /\ result' = IF fails THEN Abrupt ELSE Promise("value")
              /\ hist' = [hist EXCEPT !.linkRet = IF fails THEN "abrupt" ELSE "normal"]
              /\ pc' = "linked"
       ELSE UNCHANGED <<result, hist, pc>>
  /\ UNCHANGED <<files, retv, moduleEntry, moduleCache, proc>>
  /\ UNCHANGED <<arrVars, iterVars>>

\* What Evaluate gives: an abrupt completion or a promise in some state.
EvaluateOutcomes == {"abrupt", "fulfilled", "rejected", "pending"}

\* Lines 180-187, after Link has returned.
AfterEvaluate_keepRejected(outcome) ==
  IF outcome = "abrupt" THEN Abrupt ELSE Promise(outcome)

AfterEvaluate(outcome) ==
  IF outcome = "abrupt" THEN Abrupt
  ELSE IF outcome = "rejected" THEN Abrupt
  ELSE Promise(outcome)

MainEvaluate ==
  /\ pc = "linked"
  /\ IF result.kind = "abrupt"
       THEN UNCHANGED <<result, hist>>
       ELSE \E outcome \in EvaluateOutcomes :
              /\ hist' = [hist EXCEPT !.evalRet = outcome]
              /\ result' = AfterEvaluate(outcome)
  /\ pc' = "report"
  /\ UNCHANGED <<files, stack, retv, modules, moduleEntry, moduleCache, proc>>
  /\ UNCHANGED <<arrVars, iterVars>>

\* Lines 192-204.
ExitStatus(r) == IF r.kind = "abrupt" THEN 1 ELSE 0

MainReport ==
  /\ pc = "report"
  /\ proc' = [exitCode |-> ExitStatus(result), stderr |-> result.kind = "abrupt"]
  /\ pc' = "exit"
  /\ UNCHANGED <<files, stack, retv, modules, moduleEntry, moduleCache, result, hist>>
  /\ UNCHANGED <<arrVars, iterVars>>

\* The input file, alone or importing and imported by two more; one file at
\* most is missing or does not parse, and the input file exists.
Inputs ==
  {in \in [mode : {"module", "script"},
           exists : [Files -> BOOLEAN],
           syntaxOk : [Files -> BOOLEAN],
           imports : [Files -> SUBSET Specifiers]] :
      /\ in.exists[Entry]
      /\ Cardinality({f \in Files : ~in.exists[f] \/ ~in.syntaxOk[f]}) <= 1
      /\ \A f \in Files : ~in.exists[f] => in.imports[f] = {} /\ in.syntaxOk[f]
      /\ in.mode = "script" =>
           /\ \A f \in Files : in.imports[f] = {} /\ in.exists[f]
           /\ \A f \in Files \ {Entry} : in.syntaxOk[f]}

CliIdle ==
  /\ files = [mode |-> "none", exists |-> [f \in Files |-> TRUE],
              syntaxOk |-> [f \in Files |-> TRUE], imports |-> [f \in Files |-> {}]]
  /\ pc = "exit"
  /\ stack = <<>>
  /\ retv = None
  /\ modules = <<>>
  /\ moduleEntry = 0
  /\ moduleCache = [f \in Files |-> None]
  /\ result = None
  /\ hist = NoHist
  /\ proc = [exitCode |-> 0, stderr |-> FALSE]

InitCli ==
  /\ files \in Inputs
  /\ pc = "start"
  /\ stack = <<>>
  /\ retv = None
  /\ modules = <<>>
  /\ moduleEntry = 0
  /\ moduleCache = [f \in Files |-> None]
  /\ result = None
  /\ hist = NoHist
  /\ proc = [exitCode |-> -1, stderr |-> FALSE]

CliStep ==
  \/ CliStart \/ Resolve \/ ParseEnds \/ ParseGetsModule
  \/ MainLink \/ LinkGetsModule \/ LinkEnds \/ MainEvaluate \/ MainReport

\* Each specification starts one part of the program and leaves the others idle.
StartArray == InitArray /\ IterIdle /\ CliIdle
StartFlat == InitFlat /\ ArrayIdle /\ CliIdle
StartIter == InitIter /\ ArrayIdle /\ CliIdle
StartCli == InitCli /\ ArrayIdle /\ IterIdle
StartMutate == InitMutate /\ ArrayIdle /\ CliIdle

SpecArray == StartArray /\ [][NextArray]_vars
SpecFlat == StartFlat /\ [][NextIter]_vars
SpecIter == StartIter /\ [][NextIter]_vars
SpecMutate == StartMutate /\ [][NextIter]_vars
NextCli == CliStep

SpecCli == StartCli /\ [][NextCli]_vars

-----------------------------------------------------------------------------
(* Properties of the mutating methods.                                      *)

Returned(name) == call.name = name /\ ~IsAbrupt(ret)

\* C1: a push of k items that returns normally on a receiver of length n has
\* stored the items at n .. n+k-1 in argument order, left every index below
\* n as it was, set length to n+k and returned n+k.
C1_PushAppends ==
  Returned("push") =>
    LET n == pre.length
        k == Len(call.items)
    IN /\ \A i \in 1 .. k : O.elems[n + i - 1] = call.items[i]
       /\ \A j \in Idx : j < n => O.elems[j] = pre.elems[j]
       /\ O.length = n + k
       /\ ret = NumberCompletion(n + k)

C1_Witness ==
  /\ Returned("push")
  /\ pre.kind = "array" /\ pre.length = 1 /\ pre.elems[0] = Hole
  /\ call.items = <<"b", "a">>
  /\ ret.num = 3

\* C2: a pop that returns normally on a receiver of length n > 0 has returned
\* the value at index n-1, removed that index, set length to n-1 and left the
\* indices below n-1 as they were; on length 0 it has returned undefined and
\* set length to 0.
C2_PopRemovesLast ==
  Returned("pop") =>
    LET n == pre.length
    IN IF n > 0
         THEN /\ ret = NormalCompletion(IF pre.elems[n - 1] = Hole THEN Undefined
                                        ELSE pre.elems[n - 1])
              /\ O.elems[n - 1] = Hole
              /\ O.length = n - 1
              /\ \A j \in Idx : j < n - 1 => O.elems[j] = pre.elems[j]
         ELSE /\ ret = NormalCompletion(Undefined)
              /\ O.length = 0

C2_Witness ==
  /\ Returned("pop")
  /\ pre.length = 3 /\ pre.elems[2] = "b" /\ pre.elems[1] = Hole
  /\ ret.val = "b" /\ O.length = 2

\* The length a call of push, unshift or splice would produce, worked out
\* from the receiver and the arguments of the call.
WouldBeLength ==
  LET len == pre.length
      start == IF Len(call.args) >= 1 THEN call.args[1] ELSE 0
      actualStart == IF start < 0 THEN Max(len + start, 0) ELSE Min(start, len)
      deleted == IF Len(call.args) = 0 THEN 0
                 ELSE IF Len(call.args) = 1 THEN len - actualStart
                 ELSE Min(Max(call.args[2], 0), len - actualStart)
  IN IF call.name = "splice" THEN len + Len(call.items) - deleted
     ELSE len + Len(call.items)

\* The number of elements concat appends for its items, the receiver first.
RECURSIVE ConcatSize(_)
ConcatSize(items) ==
  IF Len(items) = 0 THEN 0
  ELSE (IF Head(items).spreadable THEN Head(items).obj.length ELSE 1)
       + ConcatSize(Tail(items))

PastSafeLength == Throw("TypeError: ArrayPastSafeLength")

\* C4: push, unshift and splice return the TypeError whenever the length
\* they would produce exceeds 2^53 - 1, with the receiver unchanged; concat
\* returns it whenever the elements to append number more than 2^53 - 1.
C4_PastSafeLengthThrows ==
  /\ (call.name \in {"push", "unshift", "splice"} /\ WouldBeLength > MAX_SAFE_INTEGER)
       => (ret = PastSafeLength /\ O = pre)
  /\ (call.name = "concat" /\ call.species = "array"
        /\ ConcatSize(<<[spreadable |-> pre.kind = "array", obj |-> pre]>> \o call.items)
             > MAX_SAFE_INTEGER)
       => ret = PastSafeLength

C4_Witness ==
  /\ call.name = "unshift"
  /\ pre.length = MAX_SAFE_INTEGER - 1 /\ Len(call.items) = 2
  /\ pre.elems[0] # Hole
  /\ ret = PastSafeLength

\* C5: while every call has returned normally, every own index key of the
\* receiver (array exotic or array-like) lies below its length.
C5_IndexKeysBelowLength == clean => IndexKeysBelowLength(O)

C5_Witness ==
  /\ clean
  /\ Returned("shift")
  /\ O.kind = "array" /\ pre.length = 3 /\ pre.elems[1] = Hole /\ pre.elems[2] # Hole
  /\ O.length = 2 /\ O.elems[1] # Hole

\* The start and delete count a splice call works with, from its arguments.
SpliceStart ==
  LET len == pre.length
      start == IF Len(call.args) >= 1 THEN call.args[1] ELSE 0
  IN IF start < 0 THEN (IF len + start < 0 THEN 0 ELSE len + start)
     ELSE IF start > len THEN len ELSE start

SpliceDeleteCount ==
  LET rest == pre.length - SpliceStart
  IN IF Len(call.args) = 0 THEN 0
     ELSE IF Len(call.args) = 1 THEN rest
     ELSE IF call.args[2] < 0 THEN 0
     ELSE IF call.args[2] > rest THEN rest ELSE call.args[2]

\* C11: a splice that returns normally returns a new array holding the
\* actualDeleteCount elements from actualStart on, in order, and leaves the
\* receiver as its old prefix below actualStart, then the items in argument
\* order, then its old suffix from actualStart + actualDeleteCount, absent
\* indices staying absent, with length len - actualDeleteCount + itemCount.
C11_SpliceContents ==
  Returned("splice") =>
    LET len == pre.length
        from == SpliceStart
        del == SpliceDeleteCount
        n == Len(call.items)
        newLen == len - del + n
    IN /\ A.kind = "array" /\ A.length = del
       /\ \A k \in Idx : A.elems[k] = IF k < del THEN pre.elems[from + k] ELSE Hole
       /\ O.length = newLen
       /\ \A i \in Idx :
            O.elems[i] = IF i < from THEN pre.elems[i]
                         ELSE IF i < from + n THEN call.items[i - from + 1]
                         ELSE IF i < newLen THEN pre.elems[i - n + del]
                         ELSE IF i < len THEN Hole
                         ELSE pre.elems[i]

C11_Witness ==
  /\ Returned("splice")
  /\ pre.kind = "ordinary" /\ pre.length = 3
  /\ pre.elems[0] = "a" /\ pre.elems[1] = "b" /\ pre.elems[2] = Hole
  /\ call.args = <<-2, 0>> /\ call.items = <<"b">>
  /\ O.length = 4 /\ O.elems[1] = "b" /\ O.elems[2] = "b" /\ O.elems[3] = Hole
  /\ A.length = 0

\* A relative index argument counted from the end when negative, kept
\* within 0 .. len.
Clamped(rel, len) ==
  IF rel < 0 THEN (IF len + rel < 0 THEN 0 ELSE len + rel)
  ELSE IF rel > len THEN len ELSE rel

CopyTo == Clamped(IF Len(call.args) >= 1 THEN call.args[1] ELSE 0, pre.length)
CopyFrom == Clamped(IF Len(call.args) >= 2 THEN call.args[2] ELSE 0, pre.length)
CopyFinal == Clamped(IF Len(call.args) >= 3 THEN call.args[3] ELSE pre.length, pre.length)
CopyCount ==
  IF CopyFinal - CopyFrom < pre.length - CopyTo
    THEN CopyFinal - CopyFrom ELSE pre.length - CopyTo

\* C12: a copyWithin that returns normally leaves at each index to+i, i below
\* count, what the receiver held at from+i before the call (absent if that
\* was absent), leaves every other index and length as they were, and copies
\* backward exactly when from < to < from + count.
C12_CopyWithinSnapshot ==
  Returned("copyWithin") =>
    /\ O.length = pre.length
    /\ \A i \in Idx :
         O.elems[i] = IF CopyTo <= i /\ i < CopyTo + CopyCount
                        THEN pre.elems[CopyFrom + (i - CopyTo)]
                        ELSE pre.elems[i]
    /\ copyWithin_direction(CopyFrom, CopyTo, CopyCount) = -1
         <=> (CopyFrom < CopyTo /\ CopyTo < CopyFrom + CopyCount)

C12_Witness ==
  /\ Returned("copyWithin")
  /\ pre.length = 3
  /\ pre.elems[0] = "a" /\ pre.elems[1] = Hole /\ pre.elems[2] = "b"
  /\ call.args = <<1, 0>>
  /\ O.elems[0] = "a" /\ O.elems[1] = "a" /\ O.elems[2] = Hole

\* What Get gives for a slot: undefined for an absent index.
Read(slot) == IF slot = Hole THEN Undefined ELSE slot

\* C13: an unshift of k items that returns normally has moved each index i
\* to i+k, absent ones staying absent, stored the items at 0..k-1 in
\* argument order and returned len+k; a shift that returns normally on a
\* receiver that is not empty returns what index 0 held, has moved each
\* index i >= 1 to i-1, removed index len-1 and set length to len-1; so a
\* shift right after unshift(x) returns x and leaves the receiver's
\* elements, holes and length as they were before the unshift.
C13_UnshiftShiftInverse ==
  /\ Returned("unshift") =>
       LET k == Len(call.items)
       IN /\ ret.num = pre.length + k
          /\ O.length = pre.length + k
          /\ \A i \in Idx : i < pre.length + k =>
               O.elems[i] = IF i < k THEN call.items[i + 1] ELSE pre.elems[i - k]
  /\ Returned("shift") /\ pre.length > 0 =>
       /\ ret.val = Read(pre.elems[0])
       /\ O.length = pre.length - 1
       /\ \A i \in Idx : i < pre.length =>
            O.elems[i] = IF i < pre.length - 1 THEN pre.elems[i + 1] ELSE Hole
  /\ Returned("unshift,shift") /\ Len(call.items) >= 1 =>
       /\ ret.val = call.items[1]
       /\ Len(call.items) = 1 => O = pre

C13_Witness ==
  /\ Returned("unshift,shift")
  /\ call.items = <<"b">>
  /\ pre.length = 3
  /\ pre.elems[0] = "a" /\ pre.elems[1] = Hole /\ pre.elems[2] = "a"
  /\ O = pre

-----------------------------------------------------------------------------
(* Properties of flat.                                                      *)

Compact(items) == SelectSeq(items, LAMBDA s : s.t # "hole")

\* One level of nesting removed from a sequence without holes.
RECURSIVE OneLevel(_)
OneLevel(items) ==
  IF Len(items) = 0 THEN <<>>
  ELSE (IF Head(items).t = "arr" THEN Compact(Head(items).items) ELSE <<Head(items)>>)
       \o OneLevel(Tail(items))

RECURSIVE Expanded(_, _)
Expanded(items, d) == IF d <= 0 THEN items ELSE Expanded(OneLevel(items), d - 1)

\* The levels the depth argument asks for; no array nests deeper than it
\* has elements.
Levels(depth) ==
  IF depth.t = "undefined" THEN 1
  ELSE IF depth.t = "nan" THEN 0
  ELSE IF depth.t = "inf" THEN MaxSlots + 1
  ELSE depth.n

Nested123 == Arr(<<Arr(<<Atom(1)>>), Arr(<<Atom(2), Arr(<<Atom(3)>>)>>)>>)

\* C3: flat(d) returns the receiver's elements in source order with nested
\* arrays expanded d levels and no deeper, absent indices skipped; it
\* returns normally unless the result would pass 2^53 - 1 elements.
C3_FlatExpandsToDepth ==
  (done /\ inp.method = "flat") =>
    LET expected == Expanded(Compact(inp.this.items), Levels(inp.depth))
    IN /\ IsAbrupt(res) <=> Len(expected) > MAX_SAFE_INTEGER
       /\ ~IsAbrupt(res) => out = expected
       /\ (inp.this = Nested123 /\ inp.depth.t = "inf")
            => out = <<Atom(1), Atom(2), Atom(3)>>

C3_Witness ==
  /\ done /\ inp.method = "flat"
  /\ inp.this = Nested123 /\ inp.depth.t = "undefined"
  /\ out = <<Atom(1), Atom(2), Arr(<<Atom(3)>>)>>

-----------------------------------------------------------------------------
(* Properties of map, filter and flatMap.                                   *)

\* The operation chosen to fail was reached (IsCallable cannot fail).
Faulted ==
  /\ done
  /\ inp.faultAt \in 1 .. Len(log)
  /\ log[inp.faultAt].op # "IsCallable"

Preamble == <<"ToObject", "Get length", "ToLength", "IsCallable", "ArraySpeciesCreate">>

\* C10: filter, map and flatMap perform ToObject, Get of length, ToLength,
\* the callability check and ArraySpeciesCreate in that order before any
\* element is touched (HasProperty, Get, Call per index); a non-callable
\* callback gives the TypeError after length is read and before the result
\* array is created, and a failing read of length comes first.
C10_OrderOfSteps ==
  (done /\ inp.method \in {"map", "filter", "flatMap"}) =>
    /\ \A i \in 1 .. Len(log) :
         /\ i <= Len(Preamble) => log[i].op = Preamble[i]
         /\ i > Len(Preamble) => log[i].op \notin {"ToObject", "IsCallable", "ArraySpeciesCreate"}
         /\ log[i].op = "Call" =>
              /\ log[i - 1] = [op |-> "Get", k |-> log[i].k]
              /\ log[i - 2] = [op |-> "HasProperty", k |-> log[i].k]
    /\ (~inp.callable /\ inp.faultAt \notin 1 .. 3) =>
         (res = Throw("TypeError") /\ Len(log) = 4)
    /\ (~inp.callable /\ inp.faultAt \in 1 .. 3) =>
         res = [type |-> "throw", val |-> Preamble[inp.faultAt], num |-> inp.faultAt]

C10_Witness ==
  /\ done /\ inp.method = "map"
  /\ ~inp.callable /\ inp.faultAt = 0
  /\ Len(inp.this.items) = 2 /\ Present(inp.this, 0)
  /\ res = Throw("TypeError")
  /\ log[Len(log)].op = "IsCallable"

-----------------------------------------------------------------------------
(* Properties of the command line.                                          *)

ReturnedModules(path) ==
  {hist.resolveLog[i].val.id : i \in {j \in 1 .. Len(hist.resolveLog) :
      /\ hist.resolveLog[j].path = path
      /\ hist.resolveLog[j].val.kind = "module"}}

\* C7: the resolver returns the same module for the same resolved path on
\* every call that returns a module, and createSourceTextModule is called at
\* most once per resolved path, the entry module included.
C7_ResolverIdentity ==
  \A f \in Files :
    /\ Cardinality(ReturnedModules(f)) <= 1
    /\ hist.createCount[f] <= 1

CyclicGraph ==
  /\ files.mode = "module"
  /\ files.imports["/a"] = {"./b"}
  /\ files.imports["/b"] = {"./a"}
  /\ \A f \in Files : files.exists[f] /\ files.syntaxOk[f]

\* C8: with a.js importing b.js and b.js importing a.js, a.js the entry, the
\* calls of the resolver and of createSourceTextModule stay as deep as the
\* graph has modules, and importing a.js from b.js starts no new parse of
\* a.js.
C8_CycleTerminates ==
  CyclicGraph => /\ Len(stack) <= 2
                 /\ hist.createCount["/a"] <= 1
                 /\ hist.createCount["/b"] <= 1

FinalAbrupt ==
  IF files.mode = "module"
    THEN \/ hist.createRet = "abrupt"
         \/ hist.linkRet = "abrupt"
         \/ hist.evalRet \in {"abrupt", "rejected"}
    ELSE hist.scriptRet = "abrupt"

\* C9: the process exits with status 1 and has written the error to stderr
\* exactly when the final result is abrupt (a parse error, a Link error, an
\* abrupt Evaluate or a rejected evaluation promise for a module), and with
\* status 0 otherwise; Evaluate is called only after Link returned normally,
\* and Link only after createSourceTextModule returned a module.
C9_ExitStatus ==
  /\ pc = "exit" => /\ proc.exitCode = (IF FinalAbrupt THEN 1 ELSE 0)
                    /\ proc.stderr = FinalAbrupt
  /\ pc # "exit" => proc.exitCode = -1 /\ ~proc.stderr
  /\ hist.evalRet # "none" => hist.linkRet = "normal"
  /\ hist.linkRet # "none" => hist.createRet = "module"

C9_Witness ==
  /\ pc = "exit"
  /\ files.imports[Entry] = {"./b"}
  /\ hist.evalRet = "rejected"
  /\ proc = [exitCode |-> 1, stderr |-> TRUE]

-----------------------------------------------------------------------------
(* Properties of map and filter under a callback that changes the receiver. *)

\* The elements of the receiver when index k is reached, and whether the
\* callback is due at k: k is then a present index.
RECURSIVE ItemsAt(_)
DueAt(k) == k < Len(ItemsAt(k)) /\ ItemsAt(k)[k + 1].t # "hole"
ItemsAt(k) ==
  IF k = 0 THEN inp.this.items
  ELSE IF DueAt(k - 1)
         THEN Effect(ItemsAt(k - 1), EffectAt(inp.effects, k - 1), k - 1)
         ELSE ItemsAt(k - 1)

InitialLen == Len(inp.this.items)
CallsMade == SelectSeq(log, LAMBDA e : e.op = "Call")

\* The values filter keeps from index k on.
RECURSIVE KeptFrom(_)
KeptFrom(k) ==
  IF k >= InitialLen THEN <<>>
  ELSE (IF DueAt(k) /\ inp.plan[k + 1] THEN <<ItemsAt(k)[k + 1]>> ELSE <<>>)
         \o KeptFrom(k + 1)

\* C14: map and filter call the callback in ascending index order, once for
\* each index below the length read before the loop that is present when it
\* is reached, whatever the callback does to the receiver, and for no other
\* index; map stores each result at its index, leaving the others absent,
\* and filter stores the selected values at 0, 1, 2, ... in visiting order.
C14_LengthReadOnce ==
  done /\ inp.method \in {"map", "filter"} /\ ~IsAbrupt(res) =>
    /\ \A i, j \in 1 .. Len(CallsMade) : i < j => CallsMade[i].k < CallsMade[j].k
    /\ {CallsMade[i].k : i \in 1 .. Len(CallsMade)}
         = {k \in 0 .. InitialLen - 1 : DueAt(k)}
    /\ inp.method = "map" =>
         out = [i \in 1 .. InitialLen |->
                  IF DueAt(i - 1) THEN MappedValue(i - 1) ELSE HoleSlot]
    /\ inp.method = "filter" => out = KeptFrom(0)

C14_Witness ==
  /\ done /\ ~IsAbrupt(res)
  /\ inp.method = "filter"
  /\ inp.this = Arr(<<Atom(1), HoleSlot, Atom(3)>>)
  /\ inp.effects = <<"setNext", "append", "deleteNext">>
  /\ inp.plan = <<TRUE, TRUE, TRUE>>
  /\ Len(CallsMade) = 3
  /\ out = <<Atom(1), Atom(60), Atom(3)>>

=============================================================================
